---- MODULE Spec2Model ----
(***************************************************************************)
(* A model of templates/js/salt.js: the browser glue that loads the        *)
(* compiled Salt application, renders its SVG into #app-container, routes  *)
(* mouse events to it and re-renders when the container is resized.        *)
(*                                                                         *)
(* The script is single threaded.  Every action below is one task of the   *)
(* host's event loop run to completion: the part of initApp between two    *)
(* awaits, one listener call, one ResizeObserver callback, or one call of  *)
(* a top-level function of the script by the hosting page.                 *)
(***************************************************************************)
EXTENDS Integers, Sequences, FiniteSets, TLC

----------------------------------------------------------------------------
(* Bounds of the model.                                                    *)

\* The application's internal state is one of 0..MaxAppState.
MaxAppState == 1
\* How many ResizeObserver objects the page lifetime sees.
MaxObservers == 2
\* How many delivered events the ordering specification records.
MaxEvents == 2

----------------------------------------------------------------------------
(* Values.                                                                 *)

NULL == "null"
APP == "SaltApp"
EL == "app-container"
NONE == "none"

\* Failure descriptions (err.message) of the steps that can throw.
ImportError == "network error"
WasmInitError == "wasm init failed"
CtorError == "constructor panicked"
RenderError == "render_svg panicked"
EventError == "handle_mouse_event panicked"
NoObserverError == "ResizeObserver is not defined"
\* Dereferencing the null container.
NullError == "TypeError: container is null"

AppStates == 0..MaxAppState
EventTypes == {"click", "mousedown", "mouseup", "mousemove"}
\* Client coordinates of the pointer, and top-left corners of the container.
Points == {[x |-> 10, y |-> 10], [x |-> 120, y |-> 160]}
Offsets == {[left |-> 0, top |-> 0], [left |-> 20, top |-> 60]}
\* Sizes of the container, in half pixels so that Math.floor has something
\* to cut off: 0 x 0, 400 x 300 and 320.5 x 240.5.
Sizes == {[width2 |-> 0, height2 |-> 0], [width2 |-> 800, height2 |-> 600],
          [width2 |-> 641, height2 |-> 481]}
PlacedRects == {[left |-> o.left, top |-> o.top, width2 |-> z.width2,
                 height2 |-> z.height2] : o \in Offsets, z \in Sizes}
\* What one handle_mouse_event call, and the render_svg call that may follow
\* it, can do: panic, or move to state next and return changed.
Outcomes == {o \in [throws : BOOLEAN, changed : BOOLEAN, next : 0..MaxAppState,
                    renderOk : BOOLEAN] :
                /\ o.throws => (~o.changed /\ o.next = 0 /\ o.renderOk)
                /\ ~o.changed => o.renderOk}
NoRect == [left |-> 0, top |-> 0, width2 |-> 0, height2 |-> 0]
NoEvent == [type |-> NONE, clientX |-> 0, clientY |-> 0]

\* The content of the container.
EmptyHtml == [kind |-> "empty", st |-> 0, w |-> 0, h |-> 0, msg |-> NONE]
\* The markup render_svg returns: a function of the application's state and
\* of the two dimensions it is given.
Markup(st, w, h) == [kind |-> "svg", st |-> st, w |-> w, h |-> h, msg |-> NONE]
\* `<div style="color: red; padding: 20px;">Error: ${err.message}</div>`
ErrorHtml(m) == [kind |-> "error", st |-> 0, w |-> 0, h |-> 0, msg |-> m]

VARIABLES
    phase,            \* where initApp is: unloaded, import, wasmInit, done
    domHasContainer,  \* the page holds an element with id app-container
    roSupported,      \* the host defines ResizeObserver
    rect,             \* the container's bounding client rectangle
    saltApp,          \* let saltApp
    container,        \* let container
    resizeObserver,   \* let resizeObserver: 0 for null, else an index of observers
    observers,        \* the ResizeObserver objects created so far
    listeners,        \* event types with handleEvent registered on the container
    innerHTML,        \* the container's content
    appState,         \* the internal state of the SaltApp object
    calls,            \* calls into the SaltApp made by the last task
    trace,            \* statements of initApp executed so far
    caught,           \* err.message received by initApp's catch clause
    initialized,      \* "Salt app initialized successfully" was logged
    escaped,          \* the exception that left the last task uncaught
    handler,          \* what the last task was
    event,            \* the DOM event of the last task
    log               \* deliveries and SaltApp calls in order (SpecOrder only)

vars == <<phase, domHasContainer, roSupported, rect, saltApp, container,
          resizeObserver, observers, listeners, innerHTML, appState, calls,
          trace, caught, initialized, escaped, handler, event, log>>

----------------------------------------------------------------------------
(* The script's mutable state as one record, threaded through the          *)
(* statements of a task; exc is the exception in flight.                   *)

Cur == [saltApp |-> saltApp, container |-> container,
        resizeObserver |-> resizeObserver, observers |-> observers,
        listeners |-> listeners, innerHTML |-> innerHTML,
        appState |-> appState, calls |-> <<>>, trace |-> trace,
        caught |-> caught, initialized |-> initialized, exc |-> NONE]

Commit(s) ==
    /\ saltApp' = s.saltApp
    /\ container' = s.container
    /\ resizeObserver' = s.resizeObserver
    /\ observers' = s.observers
    /\ listeners' = s.listeners
    /\ innerHTML' = s.innerHTML
    /\ appState' = s.appState
    /\ calls' = s.calls
    /\ trace' = s.trace
    /\ caught' = s.caught
    /\ initialized' = s.initialized
    /\ escaped' = s.exc

Mark(s, stmt) == [s EXCEPT !.trace = Append(@, stmt)]

\* Math.round in place of Math.floor.
Floor2_Round(v2) == (v2 + 1) \div 2

\* Math.floor of a length held in half pixels.
Floor2(v2) == v2 \div 2

RenderCall(w, h, ret) ==
    [op |-> "render_svg", type |-> NONE, x |-> w, y |-> h, ret |-> ret]
EventCall(type, x, y, ret) ==
    [op |-> "handle_mouse_event", type |-> type, x |-> x, y |-> y, ret |-> ret]

----------------------------------------------------------------------------
(* renderSvg, lines 38-45.  renderOk: render_svg returns (or panics).      *)

\* renderSvg with the container's null check left out.
renderSvg_NoContainerCheck(s, renderOk) ==
    IF s.saltApp = NULL THEN s
    ELSE [s EXCEPT !.calls = Append(@, RenderCall(Floor2(rect.width2),
                                   Floor2(rect.height2), "markup"))]

renderSvg(s, renderOk) ==
    IF s.saltApp = NULL \/ s.container = NULL THEN s
    ELSE LET w == Floor2(rect.width2)
             h == Floor2(rect.height2)
         IN IF renderOk
            THEN [s EXCEPT !.calls = Append(@, RenderCall(w, h, "markup")),
                           !.innerHTML = Markup(s.appState, w, h)]
            ELSE [s EXCEPT !.calls = Append(@, RenderCall(w, h, "threw")),
                           !.exc = RenderError]

(* handleEvent, lines 48-62.  out: what handle_mouse_event does (throws,   *)
(* or moves to state next and returns changed) and what render_svg does.   *)
(* A panicking call leaves the application's state as it was.              *)

\* handleEvent that renders whatever handle_mouse_event returns.
handleEvent_AlwaysRender(s, ev, out) ==
    IF s.saltApp = NULL \/ s.container = NULL \/ out.throws THEN s
    ELSE renderSvg([s EXCEPT !.calls = Append(@, EventCall(ev.type,
                        ev.clientX - rect.left, ev.clientY - rect.top,
                        IF out.changed THEN "true" ELSE "false")),
                              !.appState = out.next], out.renderOk)

\* handleEvent with a try/catch that shows the failure as initApp does.
handleEvent_ShowsError(s, ev, out) ==
    IF s.saltApp = NULL \/ s.container = NULL THEN s
    ELSE LET x == ev.clientX - rect.left
             y == ev.clientY - rect.top
         IN IF out.throws
            THEN [s EXCEPT !.calls = Append(@, EventCall(ev.type, x, y, "threw")),
                           !.innerHTML = ErrorHtml(EventError)]
            ELSE LET s1 == [s EXCEPT
                              !.calls = Append(@, EventCall(ev.type, x, y,
                                            IF out.changed THEN "true" ELSE "false")),
                              !.appState = out.next]
                 IN IF out.changed THEN renderSvg(s1, out.renderOk) ELSE s1

\* handleEvent that throttles: mousemove events are dropped.
handleEvent_DropsMoves(s, ev, out) ==
    IF s.saltApp = NULL \/ s.container = NULL \/ ev.type = "mousemove" THEN s
    ELSE LET x == ev.clientX - rect.left
             y == ev.clientY - rect.top
         IN IF out.throws
            THEN [s EXCEPT !.calls = Append(@, EventCall(ev.type, x, y, "threw")),
                           !.exc = EventError]
            ELSE LET s1 == [s EXCEPT
                              !.calls = Append(@, EventCall(ev.type, x, y,
                                            IF out.changed THEN "true" ELSE "false")),
                              !.appState = out.next]
                 IN IF out.changed THEN renderSvg(s1, out.renderOk) ELSE s1

\* handleEvent that clamps the coordinates to the container.
handleEvent_Clamped(s, ev, out) ==
    IF s.saltApp = NULL \/ s.container = NULL \/ out.throws THEN s
    ELSE LET x == IF ev.clientX < rect.left THEN 0 ELSE ev.clientX - rect.left
             y == IF ev.clientY < rect.top THEN 0 ELSE ev.clientY - rect.top
             s1 == [s EXCEPT !.calls = Append(@, EventCall(ev.type, x, y,
                                 IF out.changed THEN "true" ELSE "false")),
                             !.appState = out.next]
         IN IF out.changed THEN renderSvg(s1, out.renderOk) ELSE s1

handleEvent(s, ev, out) ==
    IF s.saltApp = NULL THEN s
    ELSE IF s.container = NULL THEN [s EXCEPT !.exc = NullError]
    ELSE LET x == ev.clientX - rect.left
             y == ev.clientY - rect.top
         IN IF out.throws
            THEN [s EXCEPT !.calls = Append(@, EventCall(ev.type, x, y, "threw")),
                           !.exc = EventError]
            ELSE LET s1 == [s EXCEPT
                              !.calls = Append(@, EventCall(ev.type, x, y,
                                            IF out.changed THEN "true" ELSE "false")),
                              !.appState = out.next]
                 IN IF out.changed THEN renderSvg(s1, out.renderOk) ELSE s1

(* setupEventListeners, lines 65-74.  addEventListener ignores a listener  *)
(* that is already registered for the type, so the registrations are a set.*)

\* setupEventListeners whose list of events lacks "click".
setupEventListeners_NoClick(s) ==
    IF s.container = NULL THEN s
    ELSE [s EXCEPT !.listeners = @ \cup (EventTypes \ {"click"})]

setupEventListeners(s) ==
    IF s.container = NULL THEN s
    ELSE [s EXCEPT !.listeners = @ \cup EventTypes]

(* ResizeObserver objects.  An observer reports its target when the        *)
(* target's size differs from the size it last reported; a new observation *)
(* starts from 0 x 0.                                                      *)

NewObserver == [observing |-> FALSE, lastW2 |-> 0, lastH2 |-> 0]

disconnect(obs, id) == [obs EXCEPT ![id] = NewObserver]

observe(obs, id) == [obs EXCEPT ![id] = [observing |-> TRUE, lastW2 |-> 0, lastH2 |-> 0]]

Active == {i \in DOMAIN observers : observers[i].observing}

HasEntry(i) ==
    /\ observers[i].observing
    /\ <<observers[i].lastW2, observers[i].lastH2>> # <<rect.width2, rect.height2>>

(* The callback of line 82-88, for the one entry an observer of the        *)
(* container can report.                                                   *)

\* The callback with its target test inverted.
resizeCallback_WrongTarget(s, target, renderOk) ==
    IF target # s.container /\ s.saltApp # NULL THEN renderSvg(s, renderOk) ELSE s

resizeCallback(s, target, renderOk) ==
    IF target = s.container /\ s.saltApp # NULL THEN renderSvg(s, renderOk) ELSE s

(* setupResizeObserver, lines 77-93.                                       *)

\* setupResizeObserver that forgets to disconnect the previous observer.
setupResizeObserver_NoDisconnect(s) ==
    LET id == Len(s.observers) + 1
        obs2 == Append(s.observers, NewObserver)
    IN IF ~roSupported THEN [s EXCEPT !.exc = NoObserverError]
       ELSE [s EXCEPT !.resizeObserver = id,
                      !.observers = IF s.container # NULL THEN observe(obs2, id) ELSE obs2]

\* setupResizeObserver that observes without looking at container.
setupResizeObserver_ObserveAlways(s) ==
    LET obs1 == IF s.resizeObserver # 0
                THEN disconnect(s.observers, s.resizeObserver)
                ELSE s.observers
        id == Len(obs1) + 1
    IN IF ~roSupported
       THEN [s EXCEPT !.observers = obs1, !.exc = NoObserverError]
       ELSE [s EXCEPT !.resizeObserver = id,
                      !.observers = observe(Append(obs1, NewObserver), id)]

\* setupResizeObserver that never attaches the observer.
setupResizeObserver_NoObserve(s) ==
    LET obs1 == IF s.resizeObserver # 0
                THEN disconnect(s.observers, s.resizeObserver)
                ELSE s.observers
    IN IF ~roSupported
       THEN [s EXCEPT !.observers = obs1, !.exc = NoObserverError]
       ELSE [s EXCEPT !.resizeObserver = Len(obs1) + 1,
                      !.observers = Append(obs1, NewObserver)]

setupResizeObserver(s) ==
    LET obs1 == IF s.resizeObserver # 0
                THEN disconnect(s.observers, s.resizeObserver)
                ELSE s.observers
        id == Len(obs1) + 1
        obs2 == Append(obs1, NewObserver)
    IN IF ~roSupported
       THEN [s EXCEPT !.observers = obs1, !.exc = NoObserverError]
       ELSE [s EXCEPT !.resizeObserver = id,
                      !.observers = IF s.container # NULL THEN observe(obs2, id) ELSE obs2]

----------------------------------------------------------------------------
(* initApp, lines 9-35.                                                    *)

\* document.getElementById("app-container"): the element, or null.
getElementById == IF domHasContainer THEN EL ELSE NULL

\* new wasm.SaltApp()
newSaltApp(s, ctorOk) ==
    IF ctorOk THEN [s EXCEPT !.saltApp = APP, !.appState = 0]
    ELSE [s EXCEPT !.exc = CtorError]

\* The catch clause, lines 31-34.
catch(s) ==
    IF s.exc = NONE THEN s
    ELSE LET s1 == [Mark(s, "catch") EXCEPT !.caught = s.exc]
         IN IF s1.container = NULL
            THEN [s1 EXCEPT !.exc = NullError]
            ELSE [s1 EXCEPT !.innerHTML = ErrorHtml(s.exc), !.exc = NONE]

\* initApp that throws when the container is not found.
initAppSync_ThrowOnMissing(s, in) ==
    LET s2 == [Mark(s, "getElementById") EXCEPT !.container = getElementById]
        s3 == newSaltApp(Mark(s2, "SaltApp"), in.ctorOk)
        s4 == IF s3.exc # NONE THEN s3
              ELSE renderSvg(Mark(s3, "renderSvg"), in.renderOk)
        s5 == IF s4.exc # NONE THEN s4
              ELSE setupEventListeners(Mark(s4, "setupEventListeners"))
        s6 == IF s5.exc # NONE THEN s5
              ELSE setupResizeObserver(Mark(s5, "setupResizeObserver"))
        s7 == IF s6.exc # NONE THEN s6
              ELSE [Mark(s6, "log") EXCEPT !.initialized = TRUE]
    IN IF s2.container = NULL THEN [s2 EXCEPT !.exc = NullError] ELSE s7

\* initApp whose later steps run although the constructor threw.
initAppSync_NoShortCircuit(s, in) ==
    LET s2 == [Mark(s, "getElementById") EXCEPT !.container = getElementById]
        s3 == newSaltApp(Mark(s2, "SaltApp"), in.ctorOk)
        s4 == renderSvg(Mark(s3, "renderSvg"), in.renderOk)
        s5 == setupEventListeners(Mark(s4, "setupEventListeners"))
    IN s5

\* initApp that renders last, after the listeners and the observer.
initAppSync_RenderLast(s, in) ==
    LET s2 == [Mark(s, "getElementById") EXCEPT !.container = getElementById]
        s3 == newSaltApp(Mark(s2, "SaltApp"), in.ctorOk)
        s4 == IF s3.exc # NONE THEN s3
              ELSE setupEventListeners(Mark(s3, "setupEventListeners"))
        s5 == IF s4.exc # NONE THEN s4
              ELSE setupResizeObserver(Mark(s4, "setupResizeObserver"))
        s6 == IF s5.exc # NONE THEN s5
              ELSE renderSvg(Mark(s5, "renderSvg"), in.renderOk)
        s7 == IF s6.exc # NONE THEN s6
              ELSE [Mark(s6, "log") EXCEPT !.initialized = TRUE]
    IN s7

\* Lines 16-30: what runs once wasm.default() has resolved.
initAppSync(s, in) ==
    LET s2 == [Mark(s, "getElementById") EXCEPT !.container = getElementById]
        s3 == newSaltApp(Mark(s2, "SaltApp"), in.ctorOk)
        s4 == IF s3.exc # NONE THEN s3
              ELSE renderSvg(Mark(s3, "renderSvg"), in.renderOk)
        s5 == IF s4.exc # NONE THEN s4
              ELSE setupEventListeners(Mark(s4, "setupEventListeners"))
        s6 == IF s5.exc # NONE THEN s5
              ELSE setupResizeObserver(Mark(s5, "setupResizeObserver"))
        s7 == IF s6.exc # NONE THEN s6
              ELSE [Mark(s6, "log") EXCEPT !.initialized = TRUE]
    IN s7

\* Line 12: the import has settled; on success wasm.default() is called.
initAppAfterImport(s, ok) ==
    IF ok THEN Mark(s, "default")
    ELSE catch([s EXCEPT !.exc = ImportError])

\* Line 13: wasm.default() has settled; the rest of initApp runs at once.
initAppAfterDefault(s, ok, in) ==
    catch(IF ok THEN initAppSync(s, in) ELSE [s EXCEPT !.exc = WasmInitError])

\* The host calls the listeners registered on the container for ev.type.
dispatchEvent(s, ev, out) ==
    IF ev.type \in s.listeners THEN handleEvent(s, ev, out) ELSE s

----------------------------------------------------------------------------
(* The state machine.                                                      *)

Init ==
    /\ phase = "unloaded"
    /\ domHasContainer \in BOOLEAN
    /\ roSupported \in BOOLEAN
    /\ rect \in (IF domHasContainer THEN PlacedRects ELSE {NoRect})
    /\ saltApp = NULL
    /\ container = NULL
    /\ resizeObserver = 0
    /\ observers = <<>>
    /\ listeners = {}
    /\ innerHTML = EmptyHtml
    /\ appState = 0
    /\ calls = <<>>
    /\ trace = <<>>
    /\ caught = NONE
    /\ initialized = FALSE
    /\ escaped = NONE
    /\ handler = NONE
    /\ event = NoEvent
    /\ log = <<>>

Task(h, ev, s) ==
    /\ handler' = h
    /\ event' = ev
    /\ Commit(s)

\* Line 96: the document is ready; initApp runs up to its first await.
DOMContentLoaded ==
    /\ phase = "unloaded"
    /\ phase' = "import"
    /\ Task("initApp", NoEvent, Mark(Cur, "import"))
    /\ UNCHANGED <<log, domHasContainer, roSupported, rect>>

ImportSettled ==
    /\ phase = "import"
    /\ \E ok \in BOOLEAN :
        /\ phase' = IF ok THEN "wasmInit" ELSE "done"
        /\ Task("initApp", NoEvent, initAppAfterImport(Cur, ok))
    /\ UNCHANGED <<log, domHasContainer, roSupported, rect>>

WasmInitSettled ==
    /\ phase = "wasmInit"
    /\ phase' = "done"
    /\ \E ok \in BOOLEAN, in \in [ctorOk : BOOLEAN, renderOk : BOOLEAN] :
        Task("initApp", NoEvent, initAppAfterDefault(Cur, ok, in))
    /\ UNCHANGED <<log, domHasContainer, roSupported, rect>>

\* The user moves or presses the pointer over the container element.
DomEvent ==
    /\ domHasContainer
    /\ \E type \in EventTypes, p \in Points,
          out \in Outcomes :
        LET ev == [type |-> type, clientX |-> p.x, clientY |-> p.y]
        IN Task("event", ev, dispatchEvent(Cur, ev, out))
    /\ UNCHANGED <<log, phase, domHasContainer, roSupported, rect>>

\* The layout changes the container's size.
Resize ==
    /\ domHasContainer
    /\ \E z \in Sizes :
        /\ z # [width2 |-> rect.width2, height2 |-> rect.height2]
        /\ rect' = [rect EXCEPT !.width2 = z.width2, !.height2 = z.height2]
    /\ Task("layout", NoEvent, Cur)
    /\ UNCHANGED <<log, phase, domHasContainer, roSupported>>

\* Scrolling moves the container within the viewport.
Scroll ==
    /\ domHasContainer
    /\ \E off \in Offsets :
        /\ off # [left |-> rect.left, top |-> rect.top]
        /\ rect' = [rect EXCEPT !.left = off.left, !.top = off.top]
    /\ Task("layout", NoEvent, Cur)
    /\ UNCHANGED <<log, phase, domHasContainer, roSupported>>

\* An observer delivers its notification: the callback of lines 82-88.
ResizeNotify ==
    /\ \E i \in DOMAIN observers, renderOk \in BOOLEAN :
        /\ HasEntry(i)
        /\ LET s == [Cur EXCEPT !.observers[i].lastW2 = rect.width2,
                                !.observers[i].lastH2 = rect.height2]
           IN Task("resize", NoEvent, resizeCallback(s, EL, renderOk))
    /\ UNCHANGED <<log, phase, domHasContainer, roSupported, rect>>

\* The hosting page calls renderSvg(), a top-level function of the script.
CallRenderSvg ==
    /\ \E renderOk \in BOOLEAN :
        Task("renderSvg", NoEvent, renderSvg(Cur, renderOk))
    /\ UNCHANGED <<log, phase, domHasContainer, roSupported, rect>>

\* The hosting page calls setupResizeObserver() again.
CallSetupResizeObserver ==
    /\ roSupported => Len(observers) < MaxObservers
    /\ Task("setupResizeObserver", NoEvent, setupResizeObserver(Cur))
    /\ UNCHANGED <<log, phase, domHasContainer, roSupported, rect>>

Next ==
    \/ DOMContentLoaded
    \/ ImportSettled
    \/ WasmInitSettled
    \/ DomEvent
    \/ Resize
    \/ Scroll
    \/ ResizeNotify
    \/ CallRenderSvg
    \/ CallSetupResizeObserver

Spec == Init /\ [][Next]_vars

----------------------------------------------------------------------------
(* The ordering specification: one page, the container at (20, 60) and     *)
(* 400 x 300, with the deliveries and the calls they make written to log   *)
(* once initApp has succeeded.                                             *)

ScenarioRect == [left |-> 20, top |-> 60, width2 |-> 800, height2 |-> 600]

LogEntry(k, type) == [k |-> k, type |-> type]

\* The SaltApp calls of a task, as log entries.
Logged(cs) == [i \in 1..Len(cs) |-> LogEntry(cs[i].op, cs[i].type)]

Deliveries == Cardinality({i \in DOMAIN log : log[i].k = "deliver"})

InitOrder == Init /\ rect = ScenarioRect

LoggedDomEvent ==
    /\ domHasContainer
    /\ Deliveries < MaxEvents
    /\ \E type \in EventTypes, p \in Points, out \in Outcomes :
        LET ev == [type |-> type, clientX |-> p.x, clientY |-> p.y]
        IN Task("event", ev, dispatchEvent(Cur, ev, out))
    /\ log' = IF initialized
              THEN log \o <<LogEntry("deliver", event'.type)>> \o Logged(calls')
              ELSE log
    /\ UNCHANGED <<phase, domHasContainer, roSupported, rect>>

LoggedResizeNotify ==
    /\ \E i \in DOMAIN observers, renderOk \in BOOLEAN :
        /\ HasEntry(i)
        /\ LET s == [Cur EXCEPT !.observers[i].lastW2 = rect.width2,
                                !.observers[i].lastH2 = rect.height2]
           IN Task("resize", NoEvent, resizeCallback(s, EL, renderOk))
    /\ log' = IF initialized
              THEN log \o <<LogEntry("resize", NONE)>> \o Logged(calls')
              ELSE log
    /\ UNCHANGED <<phase, domHasContainer, roSupported, rect>>

NextOrder ==
    \/ DOMContentLoaded
    \/ ImportSettled
    \/ WasmInitSettled
    \/ LoggedDomEvent
    \/ LoggedResizeNotify

SpecOrder == InitOrder /\ [][NextOrder]_vars

----------------------------------------------------------------------------
(* The freshness specification: the SaltApp keeps its contract (its calls  *)
(* do not panic in steady state, and handle_mouse_event returns true when  *)
(* it changes the state), every size change is reported by the observer    *)
(* before the next one, and the page calls nothing itself.                 *)

NoPending == \A i \in DOMAIN observers : ~HasEntry(i)

FreshOutcomes ==
    {o \in Outcomes : ~o.throws /\ o.renderOk /\ (o.next # appState => o.changed)}

FreshDomEvent ==
    /\ domHasContainer
    /\ \E type \in EventTypes, p \in Points, out \in FreshOutcomes :
        LET ev == [type |-> type, clientX |-> p.x, clientY |-> p.y]
        IN Task("event", ev, dispatchEvent(Cur, ev, out))
    /\ UNCHANGED <<log, phase, domHasContainer, roSupported, rect>>

FreshResize ==
    /\ NoPending
    /\ Resize

FreshResizeNotify ==
    /\ \E i \in DOMAIN observers :
        /\ HasEntry(i)
        /\ LET s == [Cur EXCEPT !.observers[i].lastW2 = rect.width2,
                                !.observers[i].lastH2 = rect.height2]
           IN Task("resize", NoEvent, resizeCallback(s, EL, TRUE))
    /\ UNCHANGED <<log, phase, domHasContainer, roSupported, rect>>

NextFresh ==
    \/ DOMContentLoaded
    \/ ImportSettled
    \/ WasmInitSettled
    \/ FreshDomEvent
    \/ FreshResize
    \/ Scroll
    \/ FreshResizeNotify

SpecFresh == Init /\ [][NextFresh]_vars /\ WF_vars(FreshResizeNotify)

----------------------------------------------------------------------------
(* Properties.                                                             *)

InTrace(stmt) == \E i \in DOMAIN trace : trace[i] = stmt

\* The statements of initApp in source order.
Order == <<"import", "default", "getElementById", "SaltApp", "renderSvg",
           "setupEventListeners", "setupResizeObserver", "log">>

\* The statements executed, without the catch clause.
Steps == IF trace # <<>> /\ trace[Len(trace)] = "catch"
         THEN SubSeq(trace, 1, Len(trace) - 1) ELSE trace

\* The statement that raises a given failure.
StepOf(m) == CASE m = ImportError -> "import"
               [] m = WasmInitError -> "default"
               [] m = CtorError -> "SaltApp"
               [] m = RenderError -> "renderSvg"
               [] m = NoObserverError -> "setupResizeObserver"
               [] OTHER -> NONE

\* C1 (as claimed): in a page that holds the container, once initApp's catch
\* clause has run for a failure with description M, the container shows the
\* error element "Error: M".
C1_FailureShown ==
    (domHasContainer /\ handler = "initApp" /\ caught # NONE)
        => innerHTML = ErrorHtml(caught)

C3_HandlerCompletes ==
    (handler = "initApp" /\ caught # NONE /\ container = NULL) => escaped = NONE

\* C4: render_svg is called only when saltApp and container both exist, and
\* a call of renderSvg with either of them null changes nothing.
C4_RenderGuarded ==
    [][/\ (\E i \in DOMAIN calls' : calls'[i].op = "render_svg")
            => (saltApp' # NULL /\ container' # NULL)
       /\ (handler' = "renderSvg" /\ (saltApp = NULL \/ container = NULL))
            => /\ calls' = <<>>
               /\ escaped' = NONE
               /\ UNCHANGED <<saltApp, container, resizeObserver, observers,
                              listeners, innerHTML, appState, trace, caught,
                              initialized>>]_vars

C4_Witness ==
    /\ handler = "renderSvg"
    /\ saltApp = NULL
    /\ container = EL
    /\ calls = <<>>

\* C5: for a routed event, render_svg is called right after
\* handle_mouse_event exactly when that call returned true; when it returned
\* false the container's content is what it was.
C5_RenderIffChanged ==
    [][(handler' = "event" /\ calls' # <<>>)
            => /\ calls'[1].op = "handle_mouse_event"
               /\ Len(calls') <= 2
               /\ (Len(calls') = 2) <=> (calls'[1].ret = "true")
               /\ Len(calls') = 2 => calls'[2].op = "render_svg"
               /\ calls'[1].ret = "false" => innerHTML' = innerHTML]_vars

C5_Witness ==
    /\ handler = "event"
    /\ event.type = "mousemove"
    /\ Len(calls) = 1
    /\ calls[1].ret = "false"
    /\ innerHTML.kind = "svg"

\* C6: at most one ResizeObserver is observing the container, and it is the
\* one the script holds.
C6_OneObservation ==
    /\ Cardinality(Active) <= 1
    /\ Active \subseteq {resizeObserver}

C6_Witness ==
    /\ Len(observers) >= 2
    /\ Active = {Len(observers)}

\* C7: every resize notification delivered while the SaltApp exists calls
\* render_svg, whatever the application's state and the current content.
C7_ResizeRenders ==
    [][(handler' = "resize" /\ saltApp # NULL)
            => /\ Len(calls') = 1
               /\ calls'[1].op = "render_svg"]_vars

C7_Witness ==
    /\ handler = "resize"
    /\ Len(calls) = 1
    /\ calls[1].ret = "markup"
    /\ innerHTML = Markup(appState, calls[1].x, calls[1].y)

\* C8: a routed event reaches handle_mouse_event with its own type and with
\* the client coordinates minus the container's top-left corner, unclamped.
C8_EventCoordinates ==
    (handler = "event" /\ event.type \in listeners) =>
        /\ calls # <<>>
        /\ calls[1].op = "handle_mouse_event"
        /\ calls[1].type = event.type
        /\ calls[1].x = event.clientX - rect.left
        /\ calls[1].y = event.clientY - rect.top

C8_Witness ==
    /\ handler = "event"
    /\ event = [type |-> "mousedown", clientX |-> 120, clientY |-> 160]
    /\ rect = [left |-> 20, top |-> 60, width2 |-> 800, height2 |-> 600]
    /\ calls # <<>>
    /\ calls[1].type = "mousedown"
    /\ calls[1].x = 100
    /\ calls[1].y = 100

\* C9: render_svg is given the floor of the container's width and height,
\* and when it returns, the container's content is the returned markup and
\* nothing else (unless initApp's catch clause then overwrites it).
C9_RenderFloorAndReplace ==
    /\ \A i \in DOMAIN calls :
        calls[i].op = "render_svg" =>
            /\ 2 * calls[i].x <= rect.width2
            /\ rect.width2 < 2 * calls[i].x + 2
            /\ 2 * calls[i].y <= rect.height2
            /\ rect.height2 < 2 * calls[i].y + 2
    /\ ( /\ calls # <<>>
         /\ calls[Len(calls)].op = "render_svg"
         /\ calls[Len(calls)].ret = "markup"
         /\ ~(handler = "initApp" /\ caught # NONE) )
        => innerHTML = Markup(appState, calls[Len(calls)].x, calls[Len(calls)].y)

C9_Witness ==
    /\ handler = "resize"
    /\ rect.width2 = 641
    /\ rect.height2 = 481
    /\ innerHTML = Markup(appState, 320, 240)

\* C10: initApp executes its statements in source order, a failing statement
\* is the last one executed before the catch clause, and once initApp has
\* failed or finished nothing of it runs again.
C10_OrderedShortCircuit ==
    /\ [](/\ Len(Steps) <= Len(Order)
          /\ Steps = SubSeq(Order, 1, Len(Steps))
          /\ ~InTrace("catch") <=> caught = NONE
          /\ caught # NONE => Steps[Len(Steps)] = StepOf(caught))
    /\ [][(caught # NONE \/ phase = "done") => trace' = trace]_vars

C10_Witness ==
    /\ caught = RenderError
    /\ trace = <<"import", "default", "getElementById", "SaltApp", "renderSvg",
                 "catch">>
    /\ listeners = {}
    /\ handler = "event"

\* How often a statement of initApp was executed.
Count(stmt) == Cardinality({i \in DOMAIN trace : trace[i] = stmt})

\* The handle_mouse_event calls of the last task.
EventCalls == {i \in DOMAIN calls : calls[i].op = "handle_mouse_event"}

\* initApp ran to its success log in a page that holds the container.
Steady == initialized /\ domHasContainer

\* The last task installed the resize watcher.
Installs ==
    \/ handler' = "setupResizeObserver"
    \/ InTrace("setupResizeObserver")' /\ ~InTrace("setupResizeObserver")

\* C11: the SaltApp is constructed at most once and the container looked up
\* at most once; once initApp has succeeded in a page that holds the
\* container, handleEvent is registered for each of the four event types, and
\* every delivered event makes exactly one handle_mouse_event call.
C11_OneOfEach ==
    /\ Count("SaltApp") <= 1
    /\ Count("getElementById") <= 1
    /\ Steady => listeners = EventTypes
    /\ (Steady /\ handler = "event") => Cardinality(EventCalls) = 1

C11_Witness ==
    /\ Steady
    /\ handler = "event"
    /\ event.type = "click"
    /\ Cardinality(EventCalls) = 1
    /\ Count("SaltApp") = 1

\* C12 (as claimed): once initApp's catch clause has run, no DOM event and no
\* resize notification calls into the SaltApp or changes the container's
\* content.  Stated for page loads in which the hosting page installs no
\* watcher of its own.
C12_FailureTerminal ==
    [][(caught # NONE /\ observers = <<>> /\ handler' \in {"event", "resize"})
            => (calls' = <<>> /\ innerHTML' = innerHTML)]_vars

\* C14: an exception of handle_mouse_event or render_svg in a listener or an
\* observer callback leaves the task uncaught; after a throwing
\* handle_mouse_event no render is made and the content is unchanged; the
\* catch clause of initApp is not run, and the handle, the listeners and the
\* watcher stay as they were.
C14_SteadyErrorsPropagate ==
    [][(Steady /\ handler' \in {"event", "resize"} /\ calls' # <<>>
          /\ calls'[Len(calls')].ret = "threw")
            => /\ escaped' = IF calls'[Len(calls')].op = "render_svg"
                             THEN RenderError ELSE EventError
               /\ calls'[Len(calls')].op = "handle_mouse_event"
                    => (Len(calls') = 1 /\ innerHTML' = innerHTML)
               /\ innerHTML'.kind # "error"
               /\ UNCHANGED <<trace, caught, initialized, saltApp, container,
                              listeners, resizeObserver>>
               /\ Active' = Active]_vars

C14_Witness ==
    /\ Steady
    /\ handler = "event"
    /\ escaped = EventError
    /\ innerHTML.kind = "svg"
    /\ listeners = EventTypes

\* C15 (as claimed): installing the resize watcher while container is null
\* attaches no observation, triggers no render and leaves the watcher as it
\* was.  Stated for the install that initApp makes.
C15_InstallWithoutContainerNoop ==
    [][(Installs /\ handler' = "initApp" /\ container' = NULL)
            => /\ Active' = {}
               /\ calls' = <<>>
               /\ resizeObserver' = resizeObserver
               /\ Len(observers') = Len(observers)]_vars

\* C15 (amended): installing the resize watcher while container is null
\* attaches no observation and triggers no render, but it creates a new,
\* unattached ResizeObserver and stores it in resizeObserver (or throws, when
\* the host has no ResizeObserver).
C15_InstallWithoutContainer ==
    [][(Installs /\ container' = NULL)
            => /\ Active' = {}
               /\ calls' = <<>>
               /\ innerHTML' = innerHTML
               /\ roSupported =>
                    /\ Len(observers') = Len(observers) + 1
                    /\ resizeObserver' = Len(observers')
                    /\ observers'[resizeObserver'] = NewObserver
               /\ ~roSupported =>
                    /\ resizeObserver' = resizeObserver
                    /\ NoObserverError \in {escaped', caught'}]_vars

C15_Witness ==
    /\ handler = "setupResizeObserver"
    /\ container = NULL
    /\ resizeObserver = 2
    /\ Active = {}

\* C16: handle_mouse_event is never called, and no observer callback
\* renders, before initApp has executed its initial renderSvg; while the
\* module is loading no event and no resize reaches the SaltApp.
C16_NothingBeforeInitialRender ==
    /\ (EventCalls # {} \/ (handler = "resize" /\ calls # <<>>))
            => (InTrace("renderSvg") /\ phase = "done")
    /\ (phase # "done" /\ handler \in {"event", "resize"}) => calls = <<>>

C16_Witness ==
    /\ phase = "wasmInit"
    /\ handler = "event"
    /\ event.type = "mousedown"
    /\ calls = <<>>

\* The event types delivered, and the types handle_mouse_event was given.
DeliveredTypes == SelectSeq(log, LAMBDA e : e.k = "deliver")
HandledTypes == SelectSeq(log, LAMBDA e : e.k = "handle_mouse_event")

\* C13: in steady state handle_mouse_event is called once per delivered
\* event, in delivery order, and the render an event or a resize triggers
\* comes right after it, before the next delivery.
C13_InOrder ==
    /\ Len(HandledTypes) = Len(DeliveredTypes)
    /\ \A i \in DOMAIN HandledTypes : HandledTypes[i].type = DeliveredTypes[i].type
    /\ \A i \in DOMAIN log :
        /\ log[i].k = "deliver" =>
            (i < Len(log) /\ log[i + 1] = LogEntry("handle_mouse_event", log[i].type))
        /\ log[i].k = "handle_mouse_event" =>
            (i > 1 /\ log[i - 1].k = "deliver")
        /\ log[i].k = "render_svg" =>
            (i > 1 /\ log[i - 1].k \in {"handle_mouse_event", "resize"})

C13_Witness ==
    /\ Len(log) >= 5
    /\ \E i \in 1..(Len(log) - 3) :
        /\ log[i] = LogEntry("deliver", "mousedown")
        /\ log[i + 2].k = "render_svg"
        /\ log[i + 3] = LogEntry("deliver", "mousemove")

\* The content is the SaltApp's render of its state at the floored size.
Fresh == innerHTML = Markup(appState, rect.width2 \div 2, rect.height2 \div 2)

\* C17: under the freshness specification, in steady state with no resize
\* notification pending the content is the render of the current state at
\* the current floored size, and from any steady state it comes to be so.
C17_Freshness ==
    /\ []((Steady /\ NoPending) => Fresh)
    /\ Steady ~> Fresh

C17_Witness ==
    /\ Steady
    /\ NoPending
    /\ handler = "resize"
    /\ appState = 1
    /\ rect.width2 = 641
    /\ Fresh

====
